---- MODULE Spec2Model ----
(***************************************************************************)
(* Hospital bed simulation (src/hospital_simulation.py, run_simulation).   *)
(*                                                                         *)
(* The program is a discrete-event simulation driven by a simpy            *)
(* Environment: an event queue ordered by (time, priority, insertion       *)
(* order), three kinds of generator processes (occupancy monitor, patient  *)
(* generator, one admit_patient process per patient) and one               *)
(* simpy.PriorityResource holding the beds.  One action of the model is    *)
(* one step of env.run: the head event of the queue is popped, the clock   *)
(* moves to its time and its callbacks run (a process runs up to its next  *)
(* yield).                                                                 *)
(*                                                                         *)
(* Time is counted in ticks, TicksPerDay ticks to one simulated day, so    *)
(* that arrivals and discharges can fall between two periodic samples as   *)
(* well as on them.  Exponential variates are drawn from small sets of     *)
(* positive tick counts; np.random.rand() is drawn as a percentage.        *)
(***************************************************************************)
EXTENDS Integers, Sequences, FiniteSets

\* ---------------------------------------------------------------- bounds
MaxDays     == 3      \* SIMULATION_TIME ranges over 1..MaxDays
MaxBeds     == 2      \* NUM_BEDS ranges over 1..MaxBeds
MaxRatio    == 2      \* EXTRA_BED_RATIO ranges over 1..MaxRatio
MaxPatients == 3      \* arrivals per run; later draws land past the horizon

\* the monitor's period, timeout(1), is one day: TicksPerDay clock ticks
TicksPerDay == 2

\* priorities of the simpy event queue
URGENT == 0
NORMAL == 1

patient_types == {"Medical", "Surgical"}

\* values of a slider 0..100 that the model tries
ProportionValues == {0, 100}
\* 100 * np.random.rand(): rand() lies in [0, 1)
RandValues == {0, 99}
\* np.random.exponential(...), in ticks: half a day or a day
InterArrivalValues == {1, 2}
LOSValues == {1, 2}
DelayValues == {1}
\* an inter-arrival draw no horizon of the model reaches
LateArrival == MaxDays * TicksPerDay

NoPid == -1

VARIABLES
    cfg,            \* the sidebar parameters of this run
    pc,             \* "start", "running" (inside env.run) or "stopped"
    now,            \* env.now, in ticks
    queue,          \* the environment's event queue, in processing order
    occupied_beds,  \* Hospital.occupied_beds
    users,          \* beds.users: patient ids holding a slot
    put_queue,      \* beds.put_queue: waiting requests, sorted by key
    occupancy,      \* Hospital.occupancy
    times,          \* Hospital.times
    patients,       \* Hospital.patients, the patient log
    patient_id,     \* patient_generator's counter
    procs           \* the admit_patient processes, indexed by patient id + 1

vars == <<cfg, pc, now, queue, occupied_beds, users, put_queue, occupancy,
          times, patients, patient_id, procs>>

\* ------------------------------------------------------- configuration
SIMULATION_TIME          == cfg.SIMULATION_TIME * TicksPerDay
NUM_BEDS                 == cfg.NUM_BEDS
ARRIVAL_RATES            == cfg.ARRIVAL_RATES
ENABLE_BED_BOARDING      == cfg.ENABLE_BED_BOARDING
EXTRA_BED_RATIO          == cfg.EXTRA_BED_RATIO
NMCR_PROPORTION          == cfg.NMCR_PROPORTION
NMCR_INTERNAL_PROPORTION == cfg.NMCR_INTERNAL_PROPORTION

\* the runs of the model have arrivals of at most one patient type
Configurations ==
    [SIMULATION_TIME : 1..MaxDays,
     NUM_BEDS : 1..MaxBeds,
     ARRIVAL_RATES : {r \in [patient_types -> 0..1] :
                          r["Medical"] + r["Surgical"] <= 1},
     ENABLE_BED_BOARDING : BOOLEAN,
     EXTRA_BED_RATIO : 1..MaxRatio,
     NMCR_PROPORTION : ProportionValues,
     NMCR_INTERNAL_PROPORTION : ProportionValues]

\* sum(ARRIVAL_RATES.values())
total_rate == ARRIVAL_RATES["Medical"] + ARRIVAL_RATES["Surgical"]

\* capacity of simpy.PriorityResource(env, capacity=...)
capacity == NUM_BEDS + (NUM_BEDS \div EXTRA_BED_RATIO)

\* ------------------------------------------------------ the event queue
Event(t, p, k, id) == [time |-> t, prio |-> p, kind |-> k, pid |-> id]

\* a queue ordered by time alone, first come first served
ScheduleIgnoringPriority(q, ev) ==
    LET k == Cardinality({i \in 1..Len(q) : q[i].time <= ev.time})
    IN  SubSeq(q, 1, k) \o <<ev>> \o SubSeq(q, k + 1, Len(q))

\* Environment.schedule: the queue is a heap keyed (time, priority, eid)
\* with eid a running counter, so a new event goes behind every event of
\* the same time and priority.
Schedule(q, ev) ==
    LET k == Cardinality({i \in 1..Len(q) :
                 \/ q[i].time < ev.time
                 \/ q[i].time = ev.time /\ q[i].prio <= ev.prio})
    IN  SubSeq(q, 1, k) \o <<ev>> \o SubSeq(q, k + 1, Len(q))

\* --------------------------------------------------------- the bed pool
\* PriorityRequest.key = (priority, time, not preempt); SortedQueue.append
\* appends and sorts stably, so a new request goes behind every request
\* whose key is not larger.
PutQueueAppend(pq, r) ==
    LET k == Cardinality({i \in 1..Len(pq) :
                 \/ pq[i].priority < r.priority
                 \/ pq[i].priority = r.priority /\ pq[i].time <= r.time})
    IN  SubSeq(pq, 1, k) \o <<r>> \o SubSeq(pq, k + 1, Len(pq))

\* a pool that hands out one slot more than its capacity
TriggerPutOneTooMany(us, pq, q, t) ==
    IF pq # <<>> /\ Len(us) <= capacity
    THEN [users     |-> Append(us, Head(pq).pid),
          put_queue |-> Tail(pq),
          queue     |-> Schedule(q, Event(t, NORMAL, "request", Head(pq).pid))]
    ELSE [users |-> us, put_queue |-> pq, queue |-> q]

\* a pool that keeps its last slot back
TriggerPutKeepsOneFree(us, pq, q, t) ==
    IF pq # <<>> /\ Len(us) + 1 < capacity
    THEN [users     |-> Append(us, Head(pq).pid),
          put_queue |-> Tail(pq),
          queue     |-> Schedule(q, Event(t, NORMAL, "request", Head(pq).pid))]
    ELSE [users |-> us, put_queue |-> pq, queue |-> q]

\* BaseResource._trigger_put with Resource._do_put: _do_put returns None,
\* so the loop looks at the head of put_queue only; the head is granted
\* when a slot is free, and its request event is scheduled (succeed()).
TriggerPut(us, pq, q, t) ==
    IF pq # <<>> /\ Len(us) < capacity
    THEN [users     |-> Append(us, Head(pq).pid),
          put_queue |-> Tail(pq),
          queue     |-> Schedule(q, Event(t, NORMAL, "request", Head(pq).pid))]
    ELSE [users |-> us, put_queue |-> pq, queue |-> q]

\* a recorder that skips a sample lower than the last one
RecordOccupancyRisesOnly(samples, value) ==
    IF samples # <<>> /\ value < samples[Len(samples)]
    THEN samples
    ELSE Append(samples, value)

\* Hospital.record_occupancy appends to the two parallel lists.
RecordOccupancy(samples, value) == Append(samples, value)
RecordTime(sample_times, t) == Append(sample_times, t)

\* ------------------------------------------------------------------ Init
Init ==
    /\ cfg \in Configurations
    /\ pc = "start"
    /\ now = 0
    /\ queue = <<>>
    /\ occupied_beds = 0
    /\ users = <<>>
    /\ put_queue = <<>>
    /\ occupancy = <<>>
    /\ times = <<>>
    /\ patients = <<>>
    /\ patient_id = 0
    /\ procs = <<>>

\* a stop event one tick late
UntilEventLate == Event(SIMULATION_TIME + 1, URGENT, "until", NoPid)

\* the stop event of env.run(until=SIMULATION_TIME)
UntilEvent == Event(SIMULATION_TIME, URGENT, "until", NoPid)

\* run_simulation up to the call of env.run: Hospital.__init__ registers
\* the monitor process, then the generator process is registered, then
\* env.run(until=SIMULATION_TIME) schedules its stop event, URGENT.
RunSimulation ==
    /\ pc = "start"
    /\ pc' = "running"
    /\ queue' = Schedule(Schedule(Schedule(<<>>,
                    Event(0, URGENT, "init_monitor", NoPid)),
                    Event(0, URGENT, "init_generator", NoPid)),
                    UntilEvent)
    /\ UNCHANGED <<cfg, now, occupied_beds, users, put_queue, occupancy,
                   times, patients, patient_id, procs>>

\* Environment.step: pop the head event and move the clock to its time.
Step(kinds) ==
    /\ pc = "running"
    /\ queue # <<>>
    /\ Head(queue).kind \in kinds
    /\ now' = Head(queue).time

\* Hospital.monitor_occupancy: one pass of the loop, entered at the
\* process's start and again after each timeout(1).
MonitorOccupancy ==
    /\ Step({"init_monitor", "monitor_timeout"})
    /\ occupancy' = RecordOccupancy(occupancy, occupied_beds)
    /\ times' = RecordTime(times, now')
    /\ queue' = Schedule(Tail(queue),
                    Event(now' + TicksPerDay, NORMAL, "monitor_timeout", NoPid))
    /\ UNCHANGED <<cfg, pc, occupied_beds, users, put_queue, patients,
                   patient_id, procs>>

\* patient_generator's while loop up to its yield: the horizon test, the
\* break on a zero total rate, and the timeout for the next arrival.  A
\* generator that returns ends its process, which simpy schedules as an
\* event of its own.
GeneratorLoop(q, t, inter_arrival_time) ==
    IF t < SIMULATION_TIME /\ total_rate # 0
    THEN Schedule(q, Event(t + inter_arrival_time, NORMAL, "generator_timeout", NoPid))
    ELSE Schedule(q, Event(t, NORMAL, "process_end", NoPid))

\* np.random.exponential(1 / total_rate), in ticks.  Once MaxPatients
\* patients have arrived the draw is one that lands past the horizon.
InterArrivalDraws(arrived) ==
    IF arrived < MaxPatients THEN InterArrivalValues ELSE {LateArrival}

\* patient_generator from its start to its first yield (or its return).
PatientGeneratorStart ==
    /\ Step({"init_generator"})
    /\ patient_id' = 0
    /\ \E inter_arrival_time \in InterArrivalDraws(0) :
           queue' = GeneratorLoop(Tail(queue), now', inter_arrival_time)
    /\ UNCHANGED <<cfg, pc, occupied_beds, users, put_queue, occupancy,
                   times, patients, procs>>

\* a process that is always given the id 0
NewProcessSameId(id, p_type, length_of_stay) ==
    [patient_id           |-> 0,
     p_type               |-> p_type,
     length_of_stay       |-> length_of_stay,
     state                |-> "Created",
     arrival_time         |-> 0,
     has_nmcr_delay       |-> FALSE,
     reason               |-> "None",
     total_length_of_stay |-> 0,
     priority             |-> 0,
     admit_time           |-> 0,
     queued               |-> FALSE]

\* the locals of a freshly created admit_patient generator
NewProcess(id, p_type, length_of_stay) ==
    [patient_id           |-> id,
     p_type               |-> p_type,
     length_of_stay       |-> length_of_stay,
     state                |-> "Created",
     arrival_time         |-> 0,
     has_nmcr_delay       |-> FALSE,
     reason               |-> "None",
     total_length_of_stay |-> 0,
     priority             |-> 0,
     admit_time           |-> 0,
     queued               |-> FALSE]

\* patient_generator resumed by its timeout: draw the type and the length
\* of stay, start the patient's process, count it, and go round the loop.
PatientGeneratorArrival ==
    /\ Step({"generator_timeout"})
    /\ \E p_type \in {p \in patient_types : ARRIVAL_RATES[p] > 0},
          length_of_stay \in LOSValues,
          inter_arrival_time \in InterArrivalDraws(patient_id + 1) :
           /\ procs' = Append(procs, NewProcess(patient_id, p_type, length_of_stay))
           /\ queue' = GeneratorLoop(
                           Schedule(Tail(queue),
                               Event(now', URGENT, "init_patient", patient_id)),
                           now', inter_arrival_time)
    /\ patient_id' = patient_id + 1
    /\ UNCHANGED <<cfg, pc, occupied_beds, users, put_queue, occupancy,
                   times, patients>>

\* a priority that hands out extra beds with boarding switched off
PriorityIgnoringBoarding(occ) ==
    IF occ < NUM_BEDS
    THEN 0
    ELSE IF occ < (NUM_BEDS + NUM_BEDS \div EXTRA_BED_RATIO)
         THEN 1
         ELSE 2

\* the priority admit_patient computes for its request
Priority(occ) ==
    IF occ < NUM_BEDS
    THEN 0
    ELSE IF ENABLE_BED_BOARDING /\ occ < (NUM_BEDS + NUM_BEDS \div EXTRA_BED_RATIO)
         THEN 1
         ELSE 2

\* a test that lets a draw equal to the proportion through
HasNmcrDelayInclusive(u) == u <= NMCR_PROPORTION

\* np.random.rand() < (NMCR_PROPORTION / 100), both sides times 100
HasNmcrDelay(u) == u < NMCR_PROPORTION

\* the two reasons the wrong way round
NmcrReasonSwapped(u) ==
    IF u < NMCR_INTERNAL_PROPORTION THEN "External" ELSE "Internal"

\* 'Internal' if np.random.rand() < (NMCR_INTERNAL_PROPORTION / 100)
\* else 'External'
NmcrReason(u) ==
    IF u < NMCR_INTERNAL_PROPORTION THEN "Internal" ELSE "External"

\* Hospital.admit_patient from its start to `yield request`: the NMCR
\* draws, the priority, and the request, which joins put_queue and
\* triggers the pool once.
AdmitPatientArrive ==
    /\ Step({"init_patient"})
    /\ LET pid == Head(queue).pid
           p   == procs[pid + 1]
       IN  \E u1 \in RandValues, u2 \in RandValues, additional_delay \in DelayValues :
           LET has_nmcr_delay == HasNmcrDelay(u1)
               reason == IF ~has_nmcr_delay THEN "None" ELSE NmcrReason(u2)
               total_length_of_stay ==
                   IF has_nmcr_delay THEN p.length_of_stay + additional_delay
                   ELSE p.length_of_stay
               priority == Priority(occupied_beds)
               request == [pid |-> pid, priority |-> priority, time |-> now']
               tp == TriggerPut(users, PutQueueAppend(put_queue, request),
                                Tail(queue), now')
           IN  /\ users' = tp.users
               /\ put_queue' = tp.put_queue
               /\ queue' = tp.queue
               /\ procs' = [procs EXCEPT ![pid + 1] =
                      [p EXCEPT !.state = "AwaitingBed",
                                !.arrival_time = now',
                                !.has_nmcr_delay = has_nmcr_delay,
                                !.reason = reason,
                                !.total_length_of_stay = total_length_of_stay,
                                !.priority = priority,
                                !.queued = \E i \in 1..Len(tp.put_queue) :
                                               tp.put_queue[i].pid = pid]]
    /\ UNCHANGED <<cfg, pc, occupied_beds, occupancy, times, patients, patient_id>>

\* a stay that leaves the NMCR delay out
StayTimeoutWithoutDelay(p) == p.length_of_stay

\* a stay that adds the NMCR delay a second time after admission
StayTimeoutDoubleDelay(p) ==
    p.total_length_of_stay + (p.total_length_of_stay - p.length_of_stay)

\* the delay of `yield self.env.timeout(total_length_of_stay)`
StayTimeout(p) == p.total_length_of_stay

\* Hospital.admit_patient resumed by its granted request: count the bed,
\* record the occupancy, and wait for the stay to pass.
AdmitPatientAdmitted ==
    /\ Step({"request"})
    /\ LET pid == Head(queue).pid
           p   == procs[pid + 1]
       IN  /\ occupied_beds' = occupied_beds + 1
           /\ occupancy' = RecordOccupancy(occupancy, occupied_beds')
           /\ times' = RecordTime(times, now')
           /\ queue' = Schedule(Tail(queue),
                  Event(now' + StayTimeout(p), NORMAL, "stay_timeout", pid))
           /\ procs' = [procs EXCEPT ![pid + 1] =
                  [p EXCEPT !.state = "Occupying", !.admit_time = now']]
    /\ UNCHANGED <<cfg, pc, users, put_queue, patients, patient_id>>

\* a release that leaves the slot taken
RemoveNothing(us, pid) == us

\* beds.users.remove(request)
Remove(us, pid) == SelectSeq(us, LAMBDA u : u # pid)

\* an entry with the arrival and the discharge the wrong way round
PatientRecordSwapped(p, discharge_time) ==
    [patient_id     |-> p.patient_id,
     type           |-> p.p_type,
     arrival_time   |-> discharge_time,
     length_of_stay |-> p.length_of_stay,
     nmcr_delay     |-> IF p.has_nmcr_delay
                        THEN p.total_length_of_stay - p.length_of_stay ELSE 0,
     total_los      |-> p.total_length_of_stay,
     discharge_time |-> p.arrival_time,
     nmcr_reason    |-> p.reason]

\* the entry admit_patient appends to Hospital.patients
PatientRecord(p, discharge_time) ==
    [patient_id     |-> p.patient_id,
     type           |-> p.p_type,
     arrival_time   |-> p.arrival_time,
     length_of_stay |-> p.length_of_stay,
     nmcr_delay     |-> IF p.has_nmcr_delay
                        THEN p.total_length_of_stay - p.length_of_stay ELSE 0,
     total_los      |-> p.total_length_of_stay,
     discharge_time |-> discharge_time,
     nmcr_reason    |-> p.reason]

\* a log that takes the record twice
LogPatientTwice(log, record) == Append(Append(log, record), record)

\* self.patients.append({...})
LogPatient(log, record) == Append(log, record)

\* Hospital.admit_patient resumed by the timeout of its stay: uncount the
\* bed, record the occupancy, leave the `with` block (which releases the
\* slot and schedules the Release event), log the patient, and return.
AdmitPatientDischarge ==
    /\ Step({"stay_timeout"})
    /\ LET pid == Head(queue).pid
           p   == procs[pid + 1]
       IN  /\ occupied_beds' = occupied_beds - 1
           /\ occupancy' = RecordOccupancy(occupancy, occupied_beds')
           /\ times' = RecordTime(times, now')
           /\ users' = Remove(users, pid)
           /\ patients' = LogPatient(patients, PatientRecord(p, now'))
           /\ queue' = Schedule(Schedule(Tail(queue),
                           Event(now', NORMAL, "release", pid)),
                           Event(now', NORMAL, "process_end", pid))
           /\ procs' = [procs EXCEPT ![pid + 1] = [p EXCEPT !.state = "Discharged"]]
    /\ UNCHANGED <<cfg, pc, put_queue, patient_id>>

\* the Release event is processed: its callback triggers the pool once.
ReleaseProcessed ==
    /\ Step({"release"})
    /\ LET tp == TriggerPut(users, put_queue, Tail(queue), now')
       IN  /\ users' = tp.users
           /\ put_queue' = tp.put_queue
           /\ queue' = tp.queue
    /\ UNCHANGED <<cfg, pc, occupied_beds, occupancy, times, patients,
                   patient_id, procs>>

\* the event of a process that has returned: nothing waits for it.
ProcessEnd ==
    /\ Step({"process_end"})
    /\ queue' = Tail(queue)
    /\ UNCHANGED <<cfg, pc, occupied_beds, users, put_queue, occupancy,
                   times, patients, patient_id, procs>>

\* the stop event of env.run(until=SIMULATION_TIME): run returns.
StopSimulation ==
    /\ Step({"until"})
    /\ pc' = "stopped"
    /\ queue' = Tail(queue)
    /\ UNCHANGED <<cfg, occupied_beds, users, put_queue, occupancy,
                   times, patients, patient_id, procs>>

Next ==
    \/ RunSimulation
    \/ MonitorOccupancy
    \/ PatientGeneratorStart
    \/ PatientGeneratorArrival
    \/ AdmitPatientArrive
    \/ AdmitPatientAdmitted
    \/ AdmitPatientDischarge
    \/ ReleaseProcessed
    \/ ProcessEnd
    \/ StopSimulation

Spec == Init /\ [][Next]_vars

\* env.run keeps stepping while an event is left, so a step that is
\* possible is taken.  Runs without Surgical arrivals: the type of a
\* patient plays no part in the scheduling.
InitFair == Init /\ cfg.ARRIVAL_RATES["Surgical"] = 0
FairSpec == InitFair /\ [][Next]_vars /\ WF_vars(Next)

\* ================================================================ claims
extra_capacity == NUM_BEDS \div EXTRA_BED_RATIO

\* C1: in every reachable state, and in every recorded sample,
\* 0 <= occupied_beds <= NUM_BEDS + NUM_BEDS // EXTRA_BED_RATIO, with
\* boarding enabled or not.
C1_OccupancyWithinCapacity ==
    /\ 0 <= occupied_beds
    /\ occupied_beds <= NUM_BEDS + extra_capacity
    /\ Len(occupancy) = Len(times)
    /\ \A i \in 1..Len(occupancy) :
           0 <= occupancy[i] /\ occupancy[i] <= NUM_BEDS + extra_capacity

\* every slot, extra ones included, is counted and sampled while a
\* patient waits
C1_Witness ==
    /\ extra_capacity > 0
    /\ occupied_beds = NUM_BEDS + extra_capacity
    /\ put_queue # <<>>
    /\ occupancy # <<>>
    /\ occupancy[Len(occupancy)] = NUM_BEDS + extra_capacity

\* C2: with boarding disabled, occupied_beds never exceeds NUM_BEDS.
C2_NoBoardingWithinBase ==
    ~ENABLE_BED_BOARDING => occupied_beds <= NUM_BEDS

\* C3: when every arrival rate is 0 the run is refused before anything is
\* scheduled: no process is registered, the clock stays at 0, and no
\* sample or patient record is produced.
C3_ZeroRateRejected ==
    total_rate = 0 =>
        /\ queue = <<>>
        /\ pc # "running"
        /\ now = 0
        /\ occupancy = <<>>
        /\ times = <<>>
        /\ patients = <<>>

\* the record of patient index k (patient id k - 1) and its process
Queued(r) == procs[r.patient_id + 1].queued

Pending(kind) == {i \in 1..Len(queue) : queue[i].kind = kind}

\* C5 as stated: with boarding enabled, in every state in which a request
\* waits, occupied_beds = NUM_BEDS + NUM_BEDS // EXTRA_BED_RATIO.
C5_NoWaitWhileFree ==
    (ENABLE_BED_BOARDING /\ put_queue # <<>>) =>
        occupied_beds = NUM_BEDS + extra_capacity

\* C5 amended: with boarding enabled, in every state in which a request
\* waits and no release and no granted request is still to be processed,
\* occupied_beds = NUM_BEDS + NUM_BEDS // EXTRA_BED_RATIO.
C5_NoWaitWhileFreeWhenSettled ==
    (/\ ENABLE_BED_BOARDING
     /\ put_queue # <<>>
     /\ Pending("release") = {}
     /\ Pending("request") = {}) =>
        occupied_beds = NUM_BEDS + extra_capacity

\* a request waits behind a pool that is full with its extra bed in use
C5_Witness ==
    /\ ENABLE_BED_BOARDING
    /\ extra_capacity > 0
    /\ put_queue # <<>>
    /\ Pending("release") = {}
    /\ Pending("request") = {}
    /\ occupied_beds = NUM_BEDS + extra_capacity

\* C6: a record is in the log only for a discharged patient, every
\* discharged patient has exactly one, and the log only grows at its end.
C6_LogOnlyDischarged ==
    /\ [](\A i \in 1..Len(patients) :
              /\ patients[i].patient_id + 1 \in 1..Len(procs)
              /\ procs[patients[i].patient_id + 1].state = "Discharged")
    /\ [](\A k \in 1..Len(procs) :
              Cardinality({i \in 1..Len(patients) : patients[i].patient_id = k - 1})
                  = IF procs[k].state = "Discharged" THEN 1 ELSE 0)
    /\ [][/\ Len(patients') >= Len(patients)
          /\ SubSeq(patients', 1, Len(patients)) = patients]_vars

\* the run has stopped with one patient logged, one in a bed and one
\* still waiting
C6_Witness ==
    /\ pc = "stopped"
    /\ patients # <<>>
    /\ \E k \in 1..Len(procs) : procs[k].state = "Occupying"
    /\ \E k \in 1..Len(procs) : procs[k].state = "AwaitingBed"

\* C7: every run stops, with the clock at most the horizon.
C7_Terminates == <>(pc = "stopped" /\ now <= SIMULATION_TIME)

\* the run has stopped while a patient waits, a bed is taken, and the
\* monitor and the generator still have their next events queued
C7_Witness ==
    /\ pc = "stopped"
    /\ now <= SIMULATION_TIME
    /\ put_queue # <<>>
    /\ users # <<>>
    /\ Pending("monitor_timeout") # {}
    /\ Pending("generator_timeout") # {}

\* the kind of the event the next step of env.run processes
StepKind == IF pc = "running" /\ queue # <<>> THEN Head(queue).kind ELSE "none"

\* C9: occupied_beds changes only when a granted patient takes its bed
\* (+1) and when a stay ends (-1); the step that changes it appends the
\* new value and the current time to the samples; a periodic sample does
\* not change it; two consecutive samples differ by at most 1.
C9_SampledUnitSteps ==
    /\ [](\A i \in 1..(Len(occupancy) - 1) :
              /\ occupancy[i + 1] - occupancy[i] <= 1
              /\ occupancy[i] - occupancy[i + 1] <= 1)
    /\ [](occupancy # <<>> => occupancy[Len(occupancy)] = occupied_beds)
    /\ [][/\ StepKind = "request" <=> occupied_beds' = occupied_beds + 1
          /\ StepKind = "stay_timeout" <=> occupied_beds' = occupied_beds - 1
          /\ StepKind \notin {"request", "stay_timeout"}
                 => occupied_beds' = occupied_beds
          /\ occupied_beds' # occupied_beds =>
                 /\ occupancy' = Append(occupancy, occupied_beds')
                 /\ times' = Append(times, now')
          /\ StepKind \in {"init_monitor", "monitor_timeout"} =>
                 /\ occupied_beds' = occupied_beds
                 /\ occupancy' = Append(occupancy, occupied_beds)
                 /\ times' = Append(times, now')]_vars

\* the samples hold a step up, a step down, and a periodic sample of a
\* ward that is not empty
C9_Witness ==
    /\ \E i \in 1..(Len(occupancy) - 1) : occupancy[i + 1] = occupancy[i] + 1
    /\ \E i \in 1..(Len(occupancy) - 1) : occupancy[i + 1] = occupancy[i] - 1
    /\ \E i \in 1..(Len(occupancy) - 1) :
           occupancy[i + 1] = occupancy[i] /\ occupancy[i] > 0

\* the patients between `self.occupied_beds += 1` and `-= 1`
Occupying == {k \in 1..Len(procs) : procs[k].state = "Occupying"}

\* C10 as stated: between any two continuations occupied_beds is the
\* number of patients admitted and not yet discharged, which is the
\* number of slots held in the pool.
C10_CountIsSlotsHeld ==
    /\ occupied_beds = Cardinality(Occupying)
    /\ occupied_beds = Len(users)

\* C10 amended: between any two continuations occupied_beds is the number
\* of patients that took their bed and are not yet discharged; each of
\* them holds exactly one slot of the pool, and the pool holds one more
\* slot for every granted request whose patient has not resumed yet.
C10_CountIsSlotsHeldLessGrants ==
    /\ occupied_beds = Cardinality(Occupying)
    /\ occupied_beds = Len(users) - Cardinality(Pending("request"))
    /\ \A k \in Occupying :
           Cardinality({i \in 1..Len(users) : users[i] = k - 1}) = 1
    /\ \A i \in 1..Len(users) :
           \/ users[i] + 1 \in Occupying
           \/ \E j \in Pending("request") : queue[j].pid = users[i]

\* a patient is in its bed while another holds a slot it has not yet
\* been counted for, after a third has left
C10_Witness ==
    /\ occupied_beds > 0
    /\ Pending("request") # {}
    /\ patients # <<>>

\* C11: with NMCR_PROPORTION = 0 every logged patient has no NMCR reason,
\* an NMCR delay of 0 and a total stay equal to its length of stay.
C11_NoNmcrAtZero ==
    NMCR_PROPORTION = 0 =>
        \A i \in 1..Len(patients) :
            /\ patients[i].nmcr_reason = "None"
            /\ patients[i].nmcr_delay = 0
            /\ patients[i].total_los = patients[i].length_of_stay

\* two patients are logged in a run with NMCR_PROPORTION = 0
C11_Witness ==
    /\ NMCR_PROPORTION = 0
    /\ Len(patients) >= 2

\* C12: with NMCR_PROPORTION = 100 and NMCR_INTERNAL_PROPORTION = 100
\* every logged patient has the reason Internal, a positive NMCR delay,
\* and a total stay of its length of stay plus that delay.
C12_AllInternalAtHundred ==
    (NMCR_PROPORTION = 100 /\ NMCR_INTERNAL_PROPORTION = 100) =>
        \A i \in 1..Len(patients) :
            /\ patients[i].nmcr_reason = "Internal"
            /\ patients[i].nmcr_delay > 0
            /\ patients[i].total_los
                   = patients[i].length_of_stay + patients[i].nmcr_delay

\* a patient is logged in a run with both proportions at 100
C12_Witness ==
    /\ NMCR_PROPORTION = 100
    /\ NMCR_INTERNAL_PROPORTION = 100
    /\ patients # <<>>

\* the patient ids holding a slot of the pool
Holders(us) == {us[i] : i \in 1..Len(us)}

\* C13: every request left in the wait queue carries priority 2, and a
\* patient is never given a slot while a patient that arrived earlier
\* (a smaller patient id) is still waiting.
C13_WaitersInArrivalOrder ==
    /\ [](\A i \in 1..Len(put_queue) : put_queue[i].priority = 2)
    /\ [][\A u \in Holders(users') \ Holders(users) :
              \A j \in 1..Len(put_queue') : put_queue'[j].pid > u]_vars

\* C14: the end of a stay decrements occupied_beds; the release it makes,
\* when the wait queue is not empty, admits exactly the head of the queue,
\* which is the request of lowest priority number and, among those, the
\* earliest; when the queue is empty it admits nobody.
C14_ReleaseAdmitsHead ==
    /\ [](\A i, j \in 1..Len(put_queue) :
              i < j => \/ put_queue[i].priority < put_queue[j].priority
                       \/ /\ put_queue[i].priority = put_queue[j].priority
                          /\ put_queue[i].time <= put_queue[j].time)
    /\ [][/\ StepKind = "stay_timeout" => occupied_beds' = occupied_beds - 1
          /\ StepKind = "release" =>
                 IF put_queue # <<>>
                 THEN /\ users' = Append(users, Head(put_queue).pid)
                      /\ put_queue' = Tail(put_queue)
                 ELSE /\ users' = users
                      /\ put_queue' = put_queue]_vars

\* C15: the priority of a request is 0 iff occupied_beds < NUM_BEDS at the
\* request, 1 iff boarding is enabled and NUM_BEDS <= occupied_beds <
\* NUM_BEDS + extra, and 2 otherwise; a request of priority 0 or 1 gets
\* its slot in the requesting step, does not stay in the wait queue, and
\* its patient takes the bed at its arrival time.
C15_TierAtRequest ==
    /\ [][StepKind = "init_patient" =>
              LET pid == Head(queue).pid
                  p   == procs'[pid + 1]
              IN  /\ p.priority = 0 <=> occupied_beds < NUM_BEDS
                  /\ p.priority = 1 <=>
                         /\ ENABLE_BED_BOARDING
                         /\ NUM_BEDS <= occupied_beds
                         /\ occupied_beds < NUM_BEDS + extra_capacity
                  /\ p.priority \in {0, 1, 2}
                  /\ p.priority \in {0, 1} =>
                         /\ pid \in Holders(users')
                         /\ ~p.queued
                         /\ \A j \in 1..Len(put_queue') : put_queue'[j].pid # pid]_vars
    /\ [](\A k \in 1..Len(procs) :
              (procs[k].priority \in {0, 1} /\ procs[k].state = "AwaitingBed")
                  => now = procs[k].arrival_time)
    /\ [](\A k \in 1..Len(procs) :
              (/\ procs[k].priority \in {0, 1}
               /\ procs[k].state \in {"Occupying", "Discharged"})
                  => procs[k].admit_time = procs[k].arrival_time)

\* one run has given out a base bed, an extra bed at priority 1, and a
\* priority 2 to a patient who waits
C15_Witness ==
    /\ \E k \in 1..Len(procs) :
           procs[k].priority = 0 /\ procs[k].state = "Occupying"
    /\ \E k \in 1..Len(procs) :
           procs[k].priority = 1 /\ procs[k].state = "Occupying"
    /\ \E k \in 1..Len(procs) :
           procs[k].priority = 2 /\ procs[k].state = "AwaitingBed"
                                 /\ procs[k].queued

\* C16: the NMCR outcome and total_length_of_stay are set in the step that
\* makes the bed request and never change afterwards; a patient in a bed
\* has its discharge due exactly total_length_of_stay after its admission,
\* and every logged patient was discharged exactly then, whether it waited
\* or not.
C16_StayFixedAtArrival ==
    /\ [][\A k \in 1..Len(procs) :
              procs[k].state # "Created" =>
                  /\ procs'[k].has_nmcr_delay = procs[k].has_nmcr_delay
                  /\ procs'[k].reason = procs[k].reason
                  /\ procs'[k].length_of_stay = procs[k].length_of_stay
                  /\ procs'[k].total_length_of_stay = procs[k].total_length_of_stay]_vars
    /\ [](\A k \in 1..Len(procs) :
              procs[k].state # "Created" =>
                  /\ procs[k].has_nmcr_delay <=>
                         procs[k].total_length_of_stay > procs[k].length_of_stay
                  /\ ~procs[k].has_nmcr_delay =>
                         procs[k].total_length_of_stay = procs[k].length_of_stay)
    /\ [](\A k \in 1..Len(procs) :
              procs[k].state = "Occupying" =>
                  /\ \E i \in Pending("stay_timeout") : queue[i].pid = k - 1
                  /\ \A i \in Pending("stay_timeout") :
                         queue[i].pid = k - 1 =>
                             queue[i].time = procs[k].admit_time
                                             + procs[k].total_length_of_stay)
    /\ [](\A i \in 1..Len(patients) :
              LET p == procs[patients[i].patient_id + 1]
              IN  /\ patients[i].total_los = p.total_length_of_stay
                  /\ patients[i].nmcr_reason = p.reason
                  /\ patients[i].discharge_time
                         = p.admit_time + p.total_length_of_stay)

\* a patient with an NMCR delay waited for its bed and has been discharged
C16_Witness ==
    \E i \in 1..Len(patients) :
        LET p == procs[patients[i].patient_id + 1]
        IN  /\ p.has_nmcr_delay
            /\ p.queued
            /\ p.admit_time > p.arrival_time
            /\ patients[i].discharge_time = p.admit_time + patients[i].total_los

\* C17 as stated: when the run has stopped every event left in the queue
\* is due after the horizon, and the samples include one at every
\* integer time 0, 1, ..., horizon.
C17_RunsThroughHorizon ==
    pc = "stopped" =>
        /\ \A i \in 1..Len(queue) : queue[i].time > SIMULATION_TIME
        /\ \A d \in 0..cfg.SIMULATION_TIME :
               \E i \in 1..Len(times) : times[i] = d * TicksPerDay

\* C17, amended: the queue is ordered by (due time, priority) with events
\* of equal key in scheduling order, and each step invokes its head; the
\* run stops at the horizon with every event due before the horizon
\* invoked and none due at the horizon or later, so the recorder appends
\* a periodic sample at every integer time 0, 1, ..., horizon - 1, each
\* holding the occupied_beds of that moment, and its sample for the
\* horizon itself is left pending.
C17_RunsBelowHorizon ==
    /\ [](\A i, j \in 1..Len(queue) :
              i < j => \/ queue[i].time < queue[j].time
                       \/ /\ queue[i].time = queue[j].time
                          /\ queue[i].prio <= queue[j].prio)
    /\ [][(pc = "running" /\ queue # <<>>) =>
              /\ now' = Head(queue).time
              /\ \A i \in 2..Len(queue) :
                     \E j \in 1..Len(queue') : queue'[j] = queue[i]
              /\ pc' = "stopped" <=> Head(queue).kind = "until"]_vars
    /\ [][(StepKind \in {"init_monitor", "monitor_timeout"}) =>
              /\ now' % TicksPerDay = 0
              /\ now' < SIMULATION_TIME
              /\ occupancy' = Append(occupancy, occupied_beds)
              /\ times' = Append(times, now')
              /\ \E i \in 1..Len(queue') :
                     queue'[i] = Event(now' + TicksPerDay, NORMAL,
                                       "monitor_timeout", NoPid)]_vars
    /\ [](pc = "stopped" =>
              /\ now = SIMULATION_TIME
              /\ \A i \in 1..Len(queue) : queue[i].time >= SIMULATION_TIME
              /\ \E i \in Pending("monitor_timeout") :
                     queue[i].time = SIMULATION_TIME
              /\ \A d \in 0..(cfg.SIMULATION_TIME - 1) :
                     \E i \in 1..Len(times) : times[i] = d * TicksPerDay
              /\ \A i \in 1..Len(times) : times[i] < SIMULATION_TIME)

\* the run has stopped with the recorder's sample for the horizon and a
\* patient's discharge due at the horizon both still in the queue
C17_Witness ==
    /\ pc = "stopped"
    /\ cfg.SIMULATION_TIME > 1
    /\ \E i \in Pending("monitor_timeout") : queue[i].time = SIMULATION_TIME
    /\ \E i \in Pending("stay_timeout") : queue[i].time = SIMULATION_TIME
    /\ patients # <<>>

\* C18: no step moves the clock backwards and the clock never passes the
\* horizon; the sample times are non-decreasing, start at 0 and none
\* exceeds the horizon; every logged patient has arrival_time <=
\* discharge_time <= horizon.
C18_ClockMonotoneWithinHorizon ==
    /\ [][now' >= now]_vars
    /\ [](0 <= now /\ now <= SIMULATION_TIME)
    /\ [](times # <<>> => times[1] = 0)
    /\ [](\A i, j \in 1..Len(times) : i < j => times[i] <= times[j])
    /\ [](\A i \in 1..Len(times) : times[i] <= SIMULATION_TIME)
    /\ [](\A i \in 1..Len(patients) :
              /\ patients[i].arrival_time <= patients[i].discharge_time
              /\ patients[i].discharge_time <= SIMULATION_TIME)

\* the clock has reached the horizon after samples at several times and
\* the discharge of a patient
C18_Witness ==
    /\ now = SIMULATION_TIME
    /\ \E i, j \in 1..Len(times) : i < j /\ 0 < times[i] /\ times[i] < times[j]
    /\ \E i \in 1..Len(patients) :
           /\ 0 < patients[i].arrival_time
           /\ patients[i].arrival_time < patients[i].discharge_time

\* C19: a patient process is started only while the clock is within the
\* horizon, one at a time, and every patient's arrival_time is at most
\* the horizon; the k-th patient started has id k - 1, the generator's
\* counter is the number of patients started, arrival times do not
\* decrease with the id, and no two log entries carry the same id.
C19_NoSpawnAfterHorizon ==
    /\ [][Len(procs') # Len(procs) =>
              /\ now' <= SIMULATION_TIME
              /\ Len(procs') = Len(procs) + 1
              /\ procs'[Len(procs')].patient_id = Len(procs)
              /\ \A k \in 1..Len(procs) :
                     procs'[k].patient_id = procs[k].patient_id]_vars
    /\ [](patient_id = Len(procs))
    /\ [](\A k \in 1..Len(procs) :
              /\ procs[k].patient_id = k - 1
              /\ procs[k].state # "Created" =>
                     procs[k].arrival_time <= SIMULATION_TIME)
    /\ [](\A j, k \in 1..Len(procs) :
              (j < k /\ procs[k].state # "Created") =>
                  /\ procs[j].state # "Created"
                  /\ procs[j].arrival_time <= procs[k].arrival_time)
    /\ [](\A i, j \in 1..Len(patients) :
              i # j => patients[i].patient_id # patients[j].patient_id)

\* the run has stopped after several arrivals, two of them logged, with
\* the generator's next arrival drawn past the horizon and never started
C19_Witness ==
    /\ pc = "stopped"
    /\ Len(procs) >= 2
    /\ Len(patients) >= 2
    /\ \A k \in 1..Len(procs) : procs[k].state # "Created"
    /\ \E i \in Pending("generator_timeout") : queue[i].time > SIMULATION_TIME
====
